---- MODULE Spec2Model ----
(***************************************************************************)
(* Olm session (src/session/mod.rs): one initiator session "A" built by    *)
(* Session::new and one responder session "B" built by Session::new_remote *)
(* from the same handshake.  Keys, KDF outputs, ciphertexts and MACs are   *)
(* symbolic terms; every encrypt output is kept in out[s] so that decrypt  *)
(* can be called with any of the peer's messages, in any order, repeated,  *)
(* with a flipped ciphertext or MAC, as malformed base64 or framing, or    *)
(* inside a PreKey envelope of foreign keys.  hist[s] and last are history *)
(* variables: what the calls on s amounted to, and the latest call.        *)
(***************************************************************************)
EXTENDS Integers, Sequences, FiniteSets, TLC

VARIABLES sess, out, hist, nextKey, ops, last

vars == <<sess, out, hist, nextKey, ops, last>>

\* ---- bounds ----
MaxOps == 6

Sessions == {"A", "B"}
Peer(s) == IF s = "A" THEN "B" ELSE "A"
Plaintexts == {"hello", "hi"}
Tampers == {"none", "ciphertext", "mac", "base64", "framing"}
Flips == {"none", "ciphertext", "mac"}
Envelopes == {"asis", "prekey"}

None == <<>>
Some(x) == <<x>>
IsSome(o) == o # <<>>
Unwrap(o) == o[1]

\* ---- key material (symbolic) ----
PublicKey(k) == [pub |-> k]
DiffieHellman(own, their) == {own, their.pub}

\* Shared3DHSecret::expand / RemoteShared3DHSecret::expand
expand(shared_secret) ==
    [root_key |-> <<>>, chain_key |-> [seed |-> <<>>, index |-> 0]]

\* RootKey::advance: KDF over the root key and one DH output
RootKey_advance(root_key, own, their) ==
    LET next == Append(root_key, DiffieHellman(own, their))
    IN  [root_key |-> next, chain_key |-> [seed |-> next, index |-> 0]]

\* ChainKey::advance: one KDF step, the index goes up by one
ChainKey_advance(chain_key) == [chain_key EXCEPT !.index = @ + 1]

\* ChainKey::create_message_key: key at the current index, then advance
create_message_key(chain_key) ==
    [key |-> [seed |-> chain_key.seed, index |-> chain_key.index],
     chain_key |-> ChainKey_advance(chain_key)]

as_bytes(plaintext) == [utf8 |-> plaintext]
from_utf8_lossy(bytes) == bytes.utf8

Cipher_encrypt(key, bytes) == [key |-> key, bytes |-> bytes, flip |-> FALSE]
Cipher_mac(key, ratchet_key, chain_index, ciphertext) ==
    [key |-> key, ratchet_key |-> ratchet_key, chain_index |-> chain_index,
     ciphertext |-> ciphertext, flip |-> FALSE]

\* ---- LocalDoubleRatchet ----
LocalDoubleRatchet_active(shared_secret, fresh) ==
    LET e == expand(shared_secret)
    IN  [state |-> "Active", root_key |-> e.root_key,
         ratchet_key |-> fresh, chain_key |-> e.chain_key]

LocalDoubleRatchet_inactive(root_key, remote_ratchet_key) ==
    [state |-> "Inactive", root_key |-> root_key,
     ratchet_key |-> remote_ratchet_key]

\* InactiveDoubleRatchet::activate
activate(ratchet, fresh) ==
    LET a == RootKey_advance(ratchet.root_key, fresh, ratchet.ratchet_key)
    IN  [state |-> "Active", root_key |-> a.root_key,
         ratchet_key |-> fresh, chain_key |-> a.chain_key]

\* ActiveDoubleRatchet::encrypt
ActiveDoubleRatchet_encrypt(ratchet, bytes) ==
    LET m  == create_message_key(ratchet.chain_key)
        rk == PublicKey(ratchet.ratchet_key)
        ct == Cipher_encrypt(m.key, bytes)
    IN  [ratchet |-> [ratchet EXCEPT !.chain_key = m.chain_key],
         message |-> [ratchet_key |-> rk, chain_index |-> m.key.index,
                      ciphertext |-> ct,
                      mac |-> Cipher_mac(m.key, rk, m.key.index, ct)]]

RemoteDoubleRatchet_new(remote_ratchet_key, remote_chain_key) ==
    [ratchet_key |-> remote_ratchet_key, chain_key |-> remote_chain_key]

\* LocalDoubleRatchet::advance on an Active ratchet
advance(ratchet, remote_ratchet_key) ==
    LET a == RootKey_advance(ratchet.root_key, ratchet.ratchet_key,
                             remote_ratchet_key)
    IN  [sending_ratchet |-> [root_key |-> a.root_key,
                              ratchet_key |-> remote_ratchet_key],
         remote_ratchet  |-> RemoteDoubleRatchet_new(remote_ratchet_key,
                                                     a.chain_key)]

belongs_to(r, ratchet_key) == r.ratchet_key = ratchet_key

\* RemoteDoubleRatchet::decrypt: the chain key is ratcheted forward in
\* place, then the MAC is recomputed and compared before decrypting
RemoteDoubleRatchet_decrypt(r, message) ==
    LET m  == create_message_key(r.chain_key)
        ok == message.mac = Cipher_mac(m.key, message.ratchet_key,
                                       message.chain_index, message.ciphertext)
    IN  [ratchet |-> [r EXCEPT !.chain_key = m.chain_key],
         ok |-> ok,
         plaintext |-> IF ok THEN message.ciphertext.bytes ELSE as_bytes("")]

\* ---- codec ----
encode(bytes) == [b64 |-> bytes]
decode(text) == text.b64
\* utilities::decode returns Ok: the text is base64
decode_ok(text) == DOMAIN text = {"b64"}
\* InnerMessage::decode / InnerPreKeyMessage::decode return Ok
well_formed(bytes) == "garbled" \notin DOMAIN bytes

InnerPreKeyMessage_from_parts(one_time_key, base_key, identity_key, message) ==
    [one_time_key |-> one_time_key, base_key |-> base_key,
     identity_key |-> identity_key, message |-> message]

\* ---- Session ----
SessionKeys_new(identity_key, ephemeral_key, one_time_key) ==
    [identity_key |-> identity_key, ephemeral_key |-> ephemeral_key,
     one_time_key |-> one_time_key]

new(shared_secret, session_keys, fresh) ==
    [session_keys |-> Some(session_keys),
     sending_ratchet |-> LocalDoubleRatchet_active(shared_secret, fresh),
     receiving_ratchet |-> None]

\* new_remote that leaves the receiving ratchet out
new_remote_no_receiving(shared_secret, remote_ratchet_key) ==
    LET e == expand(shared_secret)
    IN  [session_keys |-> None,
         sending_ratchet |->
             LocalDoubleRatchet_inactive(e.root_key, remote_ratchet_key),
         receiving_ratchet |-> None]

new_remote(shared_secret, remote_ratchet_key) ==
    LET e == expand(shared_secret)
    IN  [session_keys |-> None,
         sending_ratchet |->
             LocalDoubleRatchet_inactive(e.root_key, remote_ratchet_key),
         receiving_ratchet |->
             Some(RemoteDoubleRatchet_new(remote_ratchet_key, e.chain_key))]

\* pickle, lines 70-73: a constant, whatever the session
pickle(self) == "SESSION_PICKLE"

\* unpickle, lines 75-77: todo!(), the call unwinds and builds no session
unpickle(p) == [ok |-> FALSE, self |-> None]

\* matches_inbound_session_from, lines 84-91: true, whatever the arguments
matches_inbound_session_from(self, their_identity_key, message) == TRUE

\* drive_sending whose Active arm drops the ratcheted chain key
drive_sending_stale(self, plaintext, fresh) ==
    IF self.sending_ratchet.state = "Inactive"
    THEN LET e == ActiveDoubleRatchet_encrypt(
                      activate(self.sending_ratchet, fresh),
                      as_bytes(plaintext))
         IN  [self |-> [self EXCEPT !.sending_ratchet = e.ratchet],
              message |-> e.message]
    ELSE LET e == ActiveDoubleRatchet_encrypt(self.sending_ratchet,
                                              as_bytes(plaintext))
         IN  [self |-> self, message |-> e.message]

\* drive_sending without line 114: the activated ratchet is not stored
drive_sending_no_store(self, plaintext, fresh) ==
    IF self.sending_ratchet.state = "Inactive"
    THEN LET e == ActiveDoubleRatchet_encrypt(
                      activate(self.sending_ratchet, fresh),
                      as_bytes(plaintext))
         IN  [self |-> self, message |-> e.message]
    ELSE LET e == ActiveDoubleRatchet_encrypt(self.sending_ratchet,
                                              as_bytes(plaintext))
         IN  [self |-> [self EXCEPT !.sending_ratchet = e.ratchet],
              message |-> e.message]

\* encrypt, lines 110-118: drive the sending ratchet
drive_sending(self, plaintext, fresh) ==
    IF self.sending_ratchet.state = "Inactive"
    THEN LET e == ActiveDoubleRatchet_encrypt(
                      activate(self.sending_ratchet, fresh),
                      as_bytes(plaintext))
         IN  [self |-> [self EXCEPT !.sending_ratchet = e.ratchet],
              message |-> e.message]
    ELSE LET e == ActiveDoubleRatchet_encrypt(self.sending_ratchet,
                                              as_bytes(plaintext))
         IN  [self |-> [self EXCEPT !.sending_ratchet = e.ratchet],
              message |-> e.message]

\* frame that never uses the PreKey framing
frame_normal_only(self, message) ==
    [type |-> "Normal", inner |-> encode(message)]

\* encrypt, lines 120-133: PreKey or Normal framing
frame(self, message) ==
    IF IsSome(self.session_keys)
    THEN LET k == Unwrap(self.session_keys)
         IN  [type |-> "PreKey",
              inner |-> encode(InnerPreKeyMessage_from_parts(
                            k.one_time_key, k.ephemeral_key, k.identity_key,
                            message))]
    ELSE [type |-> "Normal", inner |-> encode(message)]

encrypt(self, plaintext, fresh) ==
    LET d == drive_sending(self, plaintext, fresh)
    IN  [self |-> d.self, message |-> frame(d.self, d.message)]

\* commit_advance without line 173
commit_advance_keeps_keys(self, sending_ratchet, remote_ratchet) ==
    [self EXCEPT
        !.sending_ratchet = LocalDoubleRatchet_inactive(
                                sending_ratchet.root_key,
                                sending_ratchet.ratchet_key),
        !.receiving_ratchet = Some(remote_ratchet)]

\* commit_advance without line 172
commit_advance_no_receiving(self, sending_ratchet, remote_ratchet) ==
    [self EXCEPT
        !.sending_ratchet = LocalDoubleRatchet_inactive(
                                sending_ratchet.root_key,
                                sending_ratchet.ratchet_key),
        !.session_keys = None]

\* commit_advance without line 171
commit_advance_keeps_sending(self, sending_ratchet, remote_ratchet) ==
    [self EXCEPT
        !.receiving_ratchet = Some(remote_ratchet),
        !.session_keys = None]

\* decrypt_normal, lines 171-173: commit of a DH-ratchet step
commit_advance(self, sending_ratchet, remote_ratchet) ==
    [self EXCEPT
        !.sending_ratchet = LocalDoubleRatchet_inactive(
                                sending_ratchet.root_key,
                                sending_ratchet.ratchet_key),
        !.receiving_ratchet = Some(remote_ratchet),
        !.session_keys = None]

\* decrypt returns a String, not a Result: a call that fails unwinds, and
\* the session is left as the assignments made up to that point left it
Panic(self, branch) ==
    [self |-> self, ok |-> FALSE, plaintext |-> as_bytes(""), branch |-> branch]

\* line 166 calls LocalDoubleRatchet::advance whatever the sending ratchet
\* is; only an Active one holds the key pair of the DH step, an Inactive
\* one fails the call.  In the matching branch (line 176, `ref mut`) the
\* stored receiving ratchet is the one RemoteDoubleRatchet::decrypt changes.
trigger_branch(self, message) ==
    IF self.sending_ratchet.state = "Active"
    THEN LET a == advance(self.sending_ratchet, message.ratchet_key)
             d == RemoteDoubleRatchet_decrypt(a.remote_ratchet, message)
         IN  IF d.ok
             THEN [self |-> commit_advance(self, a.sending_ratchet, d.ratchet),
                   ok |-> TRUE, plaintext |-> d.plaintext,
                   branch |-> "trigger"]
             ELSE Panic(self, "trigger")
    ELSE Panic(self, "trigger")

\* matching_branch that also resets the sending ratchet, as line 171 does
matching_branch_resets(self, message) ==
    LET d == RemoteDoubleRatchet_decrypt(Unwrap(self.receiving_ratchet),
                                         message)
        s2 == [self EXCEPT
                  !.receiving_ratchet = Some(d.ratchet),
                  !.sending_ratchet = LocalDoubleRatchet_inactive(
                                          self.sending_ratchet.root_key,
                                          message.ratchet_key)]
    IN  IF d.ok
        THEN [self |-> s2, ok |-> TRUE, plaintext |-> d.plaintext,
              branch |-> "matching"]
        ELSE Panic(s2, "matching")

matching_branch(self, message) ==
    LET d == RemoteDoubleRatchet_decrypt(Unwrap(self.receiving_ratchet),
                                         message)
        s2 == [self EXCEPT !.receiving_ratchet = Some(d.ratchet)]
    IN  IF d.ok
        THEN [self |-> s2, ok |-> TRUE, plaintext |-> d.plaintext,
              branch |-> "matching"]
        ELSE Panic(s2, "matching")

\* decrypt_normal whose first test asks for a receiving ratchet of another
\* key, instead of map_or(false, ..) negated
decrypt_normal_some_only(self, message) ==
    IF ~well_formed(message) THEN Panic(self, "decode")
    ELSE IF IsSome(self.receiving_ratchet)
            /\ ~belongs_to(Unwrap(self.receiving_ratchet),
                           message.ratchet_key)
    THEN trigger_branch(self, message)
    ELSE IF IsSome(self.receiving_ratchet)
    THEN matching_branch(self, message)
    ELSE Panic(self, "todo")

decrypt_normal(self, message) ==
    IF ~well_formed(message) THEN Panic(self, "decode")
    ELSE IF ~(IsSome(self.receiving_ratchet)
              /\ belongs_to(Unwrap(self.receiving_ratchet),
                            message.ratchet_key))
    THEN trigger_branch(self, message)
    ELSE IF IsSome(self.receiving_ratchet)
    THEN matching_branch(self, message)
    ELSE Panic(self, "todo")

\* decrypt_prekey that checks the identity key of the envelope
decrypt_prekey_checks_keys(self, message) ==
    IF ~well_formed(message) THEN Panic(self, "decode")
    ELSE IF message.identity_key # "Ai" THEN Panic(self, "decode")
    ELSE decrypt_normal(self, message.message)

decrypt_prekey(self, message) ==
    IF ~well_formed(message) THEN Panic(self, "decode")
    ELSE decrypt_normal(self, message.message)

\* the call returns the String or unwinds: there is no third outcome
decrypt(self, message) ==
    LET d == IF ~decode_ok(message.inner) THEN Panic(self, "decode")
             ELSE IF message.type = "Normal"
             THEN decrypt_normal(self, decode(message.inner))
             ELSE decrypt_prekey(self, decode(message.inner))
    IN  [self |-> d.self, ok |-> d.ok, branch |-> d.branch,
         outcome |-> IF d.ok THEN "Ok" ELSE "Panic",
         plaintext |-> IF d.ok THEN from_utf8_lossy(d.plaintext) ELSE ""]

\* ---- delivery: a bit of the ciphertext or of the MAC flipped, text that
\* is not base64, bytes that are no framing, another PreKey envelope ----
FlipInner(m, t) ==
    IF t = "ciphertext" THEN [m EXCEPT !.ciphertext.flip = ~@]
    ELSE IF t = "mac" THEN [m EXCEPT !.mac.flip = ~@]
    ELSE m

Tamper(message, t) ==
    IF t = "base64"
    THEN [type |-> message.type,
          inner |-> [b64 |-> message.inner.b64, bad |-> TRUE]]
    ELSE IF t = "framing"
    THEN [type |-> message.type, inner |-> encode([garbled |-> TRUE])]
    ELSE IF message.type = "Normal"
    THEN [message EXCEPT !.inner.b64 = FlipInner(@, t)]
    ELSE [message EXCEPT !.inner.b64.message = FlipInner(@, t)]

InnerOf(message) ==
    IF message.type = "Normal" THEN decode(message.inner)
    ELSE decode(message.inner).message

\* ---- the state machine ----
Handshake == SessionKeys_new("Ai", "Ei", "Or")
Foreign == SessionKeys_new("Ax", "Ex", "Ox")

Envelope(message, e) ==
    IF e = "prekey"
    THEN [type |-> "PreKey",
          inner |-> encode(InnerPreKeyMessage_from_parts(
                        Foreign.one_time_key, Foreign.ephemeral_key,
                        Foreign.identity_key, InnerOf(message)))]
    ELSE message

Delivered(s, i, t, e) == Envelope(Tamper(out[s][i].message, t), e)

\* what the calls made on one session so far amount to:
\*   nok     successful decrypt calls
\*   dh      DH-ratchet steps committed by decrypt_normal
\*   k       peer messages 1..k were decrypted, each as the next one
\*   inorder every decrypt call was the untampered next peer message
\*           (the PreKey envelope it arrives in is not looked at here)
\*   clean   every decrypt call was that, or a tampered message
\*   tf      the latest decrypt call failed on a tampered message
\*   ooo     progress of the delivery order M2, M1, M3 (4: another order)
NoHist == [nok |-> 0, dh |-> 0, k |-> 0, inorder |-> TRUE, clean |-> TRUE,
           tf |-> FALSE, ooo |-> 0]

Pattern == <<2, 1, 3>>

Record(h, i, t, d) ==
    LET next == t = "none" /\ i = h.k + 1
    IN  [nok |-> IF d.ok THEN h.nok + 1 ELSE h.nok,
         dh |-> IF d.ok /\ d.branch = "trigger" THEN h.dh + 1 ELSE h.dh,
         k |-> IF next /\ d.ok THEN h.k + 1 ELSE h.k,
         inorder |-> h.inorder /\ next,
         clean |-> h.clean /\ (next \/ t # "none"),
         tf |-> t # "none" /\ ~d.ok,
         ooo |-> IF h.ooo < 3 /\ t = "none" /\ i = Pattern[h.ooo + 1]
                 THEN h.ooo + 1 ELSE 4]

Init ==
    /\ sess = [s \in Sessions |->
                 IF s = "A" THEN new("3dh", Handshake, 1)
                 ELSE new_remote("3dh", PublicKey(1))]
    /\ out = [s \in Sessions |-> <<>>]
    /\ hist = [s \in Sessions |-> NoHist]
    /\ nextKey = 2
    /\ ops = 0
    /\ last = [op |-> "init", who |-> "A", pre |-> new("3dh", Handshake, 1),
               hpre |-> NoHist, i |-> 0, t |-> "none", ok |-> TRUE,
               plaintext |-> "", branch |-> "", type |-> "",
               e |-> "asis", outcome |-> "Ok", keys |-> Handshake]

Encrypt(s, p) ==
    /\ ops < MaxOps
    /\ ops' = ops + 1
    /\ LET e == encrypt(sess[s], p, nextKey)
       IN  /\ sess' = [sess EXCEPT ![s] = e.self]
           /\ out' = [out EXCEPT ![s] = Append(@,
                         [message |-> e.message, plaintext |-> p,
                          nok |-> hist[s].nok, dh |-> hist[s].dh])]
           /\ nextKey' = IF sess[s].sending_ratchet.state = "Inactive"
                         THEN nextKey + 1 ELSE nextKey
           /\ last' = [op |-> "encrypt", who |-> s, pre |-> sess[s],
                       hpre |-> hist[s], i |-> Len(out[s]) + 1, t |-> "none",
                       ok |-> TRUE, plaintext |-> p, branch |-> "",
                       type |-> e.message.type, e |-> "asis",
                       outcome |-> "Ok", keys |-> Handshake]
    /\ UNCHANGED hist

Decrypt(s, i, t, e) ==
    /\ ops < MaxOps
    /\ ops' = ops + 1
    /\ i \in 1..Len(out[Peer(s)])
    /\ e = "prekey" => t \in Flips
    /\ LET m == Delivered(Peer(s), i, t, e)
           d == decrypt(sess[s], m)
       IN  /\ sess' = [sess EXCEPT ![s] = d.self]
           /\ hist' = [hist EXCEPT ![s] = Record(@, i, t, d)]
           /\ last' = [op |-> "decrypt", who |-> s, pre |-> sess[s],
                       hpre |-> hist[s], i |-> i, t |-> t, ok |-> d.ok,
                       plaintext |-> d.plaintext, branch |-> d.branch,
                       type |-> m.type, e |-> e, outcome |-> d.outcome,
                       keys |-> Handshake]
    /\ UNCHANGED <<out, nextKey>>

\* a prekey message carrying the keys k, asked of session s on behalf of
\* the identity key id
Matches(s, id, k) ==
    /\ LET m == encode(InnerPreKeyMessage_from_parts(
                    k.one_time_key, k.ephemeral_key, k.identity_key,
                    [garbled |-> TRUE]))
       IN  last' = [op |-> "matches", who |-> s, pre |-> sess[s],
                    hpre |-> hist[s], i |-> 0, t |-> "none",
                    ok |-> matches_inbound_session_from(sess[s], id, m),
                    plaintext |-> id, branch |-> "", type |-> "PreKey",
                    e |-> "asis", outcome |-> "Ok", keys |-> k]
    /\ UNCHANGED <<sess, out, hist, nextKey, ops>>

\* the session is pickled and restored from the pickle
Repickle(s) ==
    /\ LET u == unpickle(pickle(sess[s]))
       IN  /\ sess' = IF u.ok THEN [sess EXCEPT ![s] = Unwrap(u.self)]
                      ELSE sess
           /\ last' = [op |-> "unpickle", who |-> s, pre |-> sess[s],
                       hpre |-> hist[s], i |-> 0, t |-> "none", ok |-> u.ok,
                       plaintext |-> "", branch |-> "", type |-> "",
                       e |-> "asis",
                       outcome |-> IF u.ok THEN "Ok" ELSE "Panic",
                       keys |-> Handshake]
    /\ UNCHANGED <<out, hist, nextKey, ops>>

IdentityKeys == {Handshake.identity_key, Foreign.identity_key}
PreKeyKeys ==
    {SessionKeys_new(idk, Handshake.ephemeral_key, otk) :
        idk \in IdentityKeys,
        otk \in {Handshake.one_time_key, Foreign.one_time_key}}

Next ==
    \/ \E s \in Sessions, p \in Plaintexts : Encrypt(s, p)
    \/ \E s \in Sessions, i \in 1..MaxOps, t \in Tampers, e \in Envelopes :
           Decrypt(s, i, t, e)

Spec == Init /\ [][Next]_vars

\* the sessions exchange their messages as they are, in any order, and are
\* asked matches_inbound_session_from and pickled in every state they reach
NextQuery ==
    \/ \E s \in Sessions, p \in Plaintexts : Encrypt(s, p)
    \/ \E s \in Sessions, i \in 1..MaxOps : Decrypt(s, i, "none", "asis")
    \/ \E s \in Sessions, id \in IdentityKeys, k \in PreKeyKeys :
           Matches(s, id, k)
    \/ \E s \in Sessions : Repickle(s)

SpecQuery == Init /\ [][NextQuery]_vars

\* ---- properties ----
Inner(s, i) == InnerOf(out[s][i].message)
Sent(s, i) == out[s][i].plaintext
LastPeer == Peer(last.who)

\* C1: on a fresh pair, when A encrypts N messages in a row and B decrypts
\* them in the same order, every decrypt call of B returns the plaintext
\* that A encrypted.
C1_RoundTrip ==
    (/\ last.op = "decrypt" /\ last.who = "B"
     /\ hist["B"].inorder
     /\ \A j \in 1..last.i : out["A"][j].nok = 0)
    => (last.ok /\ last.plaintext = Sent("A", last.i))

C1_Witness ==
    /\ last.op = "decrypt" /\ last.who = "B" /\ last.i = 3
    /\ hist["B"].inorder /\ hist["B"].k = 3
    /\ \A j \in 1..3 : out["A"][j].nok = 0
    /\ last.plaintext = Sent("A", 3)

\* C2: a decrypt call that fails on a tampered message leaves session_keys,
\* sending_ratchet and receiving_ratchet (chain key and index included)
\* as they were before the call.
C2_FailedDecryptKeepsState ==
    (last.op = "decrypt" /\ last.t # "none" /\ ~last.ok)
    => sess[last.who] = last.pre

\* C3: after a decrypt call has failed on a tampered message, the following
\* decrypt call on that session with the next legitimate message of the
\* peer succeeds and returns its plaintext.
C3_RetryAfterTamper ==
    (/\ last.op = "decrypt" /\ last.t = "none"
     /\ last.hpre.clean /\ last.hpre.tf
     /\ last.i = last.hpre.k + 1)
    => (last.ok /\ last.plaintext = Sent(LastPeer, last.i))

\* C4: M1, M2, M3 encrypted in that order on one chain and handed to the
\* receiver's decrypt as M2, M1, M3: each of the three calls returns the
\* plaintext of its message.
C4_OutOfOrder ==
    (/\ last.op = "decrypt" /\ hist[last.who].ooo \in 1..3
     /\ Len(out[LastPeer]) >= 3
     /\ \A j \in 1..3 :
           /\ Inner(LastPeer, j).ratchet_key = Inner(LastPeer, 1).ratchet_key
           /\ Inner(LastPeer, j).chain_index = j - 1)
    => (last.ok /\ last.plaintext = Sent(LastPeer, last.i))

\* C5: no two messages produced by encrypt on one session carry the same
\* (ratchet public key, chain index) pair, and the indices of the messages
\* of one chain are strictly increasing.
C5_UniqueKeyIndex ==
    \A s \in Sessions : \A i, j \in 1..Len(out[s]) :
        (i < j /\ Inner(s, i).ratchet_key = Inner(s, j).ratchet_key)
        => Inner(s, i).chain_index < Inner(s, j).chain_index

C5_Witness ==
    \E s \in Sessions :
        /\ Len(out[s]) >= 3
        /\ Inner(s, 1).ratchet_key = Inner(s, 2).ratchet_key
        /\ Inner(s, 1).chain_index < Inner(s, 2).chain_index
        /\ Inner(s, 3).ratchet_key # Inner(s, 1).ratchet_key
        /\ hist[s].dh >= 1

\* C6: encrypt returns a PreKey message, embedding the session's one-time,
\* ephemeral and identity keys around the inner message, exactly when
\* session_keys is present at the call, and a Normal message exactly when
\* it is absent.
C6_Framing ==
    last.op = "encrypt" =>
        LET m == out[last.who][last.i].message
        IN  IF IsSome(last.pre.session_keys)
            THEN /\ m.type = "PreKey"
                 /\ decode(m.inner).one_time_key
                        = Unwrap(last.pre.session_keys).one_time_key
                 /\ decode(m.inner).base_key
                        = Unwrap(last.pre.session_keys).ephemeral_key
                 /\ decode(m.inner).identity_key
                        = Unwrap(last.pre.session_keys).identity_key
            ELSE m.type = "Normal"

C6_Witness ==
    /\ last.op = "encrypt" /\ last.who = "A" /\ last.i = 1
    /\ IsSome(last.pre.session_keys)
    /\ out["A"][1].message.type = "PreKey"

\* C7 as stated: once the responder has decrypted a message of the
\* initiator, every message the initiator then produces is Normal.
C7_AfterResponderDecrypt ==
    (last.op = "encrypt" /\ last.who = "A" /\ hist["B"].nok > 0)
    => last.type = "Normal"

\* C7 amended: once the initiator itself has decrypted a message of the
\* responder, every message the initiator then produces is Normal and
\* carries no prekey material.
C7_AfterOwnDecrypt ==
    (last.op = "encrypt" /\ last.who = "A" /\ last.hpre.nok > 0)
    => /\ last.type = "Normal"
       /\ out["A"][last.i].message.inner = encode(Inner("A", last.i))

C7_Witness ==
    /\ last.op = "encrypt" /\ last.who = "A" /\ last.hpre.nok > 0
    /\ last.i >= 2 /\ out["A"][1].message.type = "PreKey"
    /\ last.type = "Normal"

\* C8 as stated: in every state of either session, session_keys is present
\* if and only if no decrypt call on that session has succeeded.
C8_KeysIffNoDecrypt ==
    \A s \in Sessions : IsSome(sess[s].session_keys) <=> hist[s].nok = 0

\* C8 amended: session_keys is present if and only if the session was built
\* by Session::new and no decrypt call on it has succeeded.
C8_KeysIffInitiatorNoDecrypt ==
    \A s \in Sessions :
        IsSome(sess[s].session_keys) <=> (s = "A" /\ hist[s].nok = 0)

C8_Witness ==
    /\ hist["A"].nok > 0 /\ ~IsSome(sess["A"].session_keys)
    /\ hist["B"].nok > 0

\* C9 as stated: in every state of either session, receiving_ratchet is
\* present if and only if a DH-ratchet step has occurred on that session.
C9_ReceivingIffStep ==
    \A s \in Sessions : IsSome(sess[s].receiving_ratchet) <=> hist[s].dh > 0

\* C9 amended: receiving_ratchet is present if and only if the session was
\* built by Session::new_remote or a DH-ratchet step has occurred on it.
C9_ReceivingIffResponderOrStep ==
    \A s \in Sessions :
        IsSome(sess[s].receiving_ratchet) <=> (s = "B" \/ hist[s].dh > 0)

C9_Witness ==
    /\ hist["A"].dh > 0 /\ IsSome(sess["A"].receiving_ratchet)
    /\ hist["B"].dh = 0 /\ hist["B"].nok > 0

\* C10: I encrypts "hello", R decrypts it, R encrypts "hi", I decrypts it:
\* the first message is PreKey and R recovers "hello"; the reply is Normal
\* and I recovers "hi"; I has then gone through exactly one DH-ratchet
\* step, its sending ratchet is Inactive and seeded with R's ratchet key,
\* and it has a receiving ratchet.
HelloDelivered ==
    /\ ops = 2 /\ last.op = "decrypt" /\ last.who = "B"
    /\ last.i = 1 /\ last.t = "none"
    /\ Sent("A", 1) = "hello"

HiDelivered ==
    /\ ops = 4 /\ last.op = "decrypt" /\ last.who = "A"
    /\ last.i = 1 /\ last.t = "none"
    /\ Len(out["A"]) = 1 /\ Sent("A", 1) = "hello"
    /\ Len(out["B"]) = 1 /\ Sent("B", 1) = "hi"
    /\ hist["B"].inorder /\ hist["B"].k = 1 /\ out["B"][1].nok = 1

C10_Handshake ==
    /\ HelloDelivered =>
          /\ out["A"][1].message.type = "PreKey"
          /\ last.ok /\ last.plaintext = "hello"
    /\ HiDelivered =>
          /\ out["B"][1].message.type = "Normal"
          /\ last.ok /\ last.plaintext = "hi"
          /\ hist["A"].dh = 1
          /\ sess["A"].sending_ratchet
                = LocalDoubleRatchet_inactive(
                      sess["A"].sending_ratchet.root_key,
                      Inner("B", 1).ratchet_key)
          /\ sess["A"].sending_ratchet.root_key # last.pre.sending_ratchet.root_key
          /\ IsSome(sess["A"].receiving_ratchet)
          /\ belongs_to(Unwrap(sess["A"].receiving_ratchet),
                        Inner("B", 1).ratchet_key)

C10_Witness == HiDelivered /\ last.ok /\ hist["A"].dh = 1

\* C11: matches_inbound_session_from is true only for a prekey message
\* whose identity key and one-time key are the ones the session was
\* established with, and false when they differ.
C11_MatchesOwnKeysOnly ==
    last.op = "matches" =>
        (last.ok <=> /\ last.keys.identity_key = Handshake.identity_key
                     /\ last.keys.one_time_key = Handshake.one_time_key
                     /\ last.plaintext = Handshake.identity_key)

\* C12: every decode failure and every MAC mismatch met by decrypt comes
\* back to the caller as a typed failure value; none aborts the call.
C12_TypedFailures ==
    (last.op = "decrypt" /\ ~last.ok) => last.outcome = "Err"

\* C13: unpickle(pickle(s)) yields a session whose session_keys,
\* sending_ratchet and receiving_ratchet equal those of s.
C13_PickleRoundTrip ==
    last.op = "unpickle" => (last.ok /\ sess[last.who] = last.pre)

InOrder == hist["A"].inorder /\ hist["B"].inorder

\* C14: a decrypt call that takes the DH-ratchet trigger and decrypts leaves
\* the sending ratchet Inactive and seeded with the message's ratchet key,
\* and a new receiving ratchet of that key, both from one root-key step.
C14_TriggerResets ==
    (last.op = "decrypt" /\ last.branch = "trigger" /\ last.ok) =>
        LET rk == Inner(LastPeer, last.i).ratchet_key
            own == last.pre.sending_ratchet
            step == RootKey_advance(own.root_key, own.ratchet_key, rk)
            me == sess[last.who]
        IN  /\ me.sending_ratchet
                  = LocalDoubleRatchet_inactive(step.root_key, rk)
            /\ IsSome(me.receiving_ratchet)
            /\ me.receiving_ratchet # last.pre.receiving_ratchet
            /\ Unwrap(me.receiving_ratchet).ratchet_key = rk
            /\ Unwrap(me.receiving_ratchet).chain_key
                  = ChainKey_advance(step.chain_key)

C14_Witness ==
    /\ last.op = "decrypt" /\ last.branch = "trigger" /\ last.ok
    /\ IsSome(last.pre.receiving_ratchet)
    /\ Unwrap(last.pre.receiving_ratchet).ratchet_key
          # Inner(LastPeer, last.i).ratchet_key
    /\ sess[last.who].sending_ratchet.state = "Inactive"

\* C15: with each direction delivered in order and without loss, every
\* decrypt call returns the plaintext that was encrypted, whatever the
\* interleaving, and after a DH-ratchet step the receiver's receiving chain
\* is the sender's current sending chain.
C15_InOrderAlwaysDecrypts ==
    (last.op = "decrypt" /\ InOrder) =>
        /\ last.ok /\ last.plaintext = Sent(LastPeer, last.i)
        /\ last.branch = "trigger" =>
              LET r == Unwrap(sess[last.who].receiving_ratchet)
                  p == sess[LastPeer].sending_ratchet
              IN  /\ IsSome(sess[last.who].receiving_ratchet)
                  /\ p.state = "Active"
                  /\ r.ratchet_key = PublicKey(p.ratchet_key)
                  /\ r.chain_key.seed = p.chain_key.seed

C15_Witness ==
    /\ last.op = "decrypt" /\ InOrder /\ last.who = "B"
    /\ last.branch = "trigger" /\ last.ok
    /\ hist["A"].dh >= 1 /\ hist["B"].dh >= 1
    /\ last.plaintext = Sent("A", last.i)

\* C16: after every encrypt call the sending ratchet is Active; an Inactive
\* one was activated with a fresh key pair and stored, an Active one keeps
\* its key pair, so messages encrypted with no DH-ratchet trigger between
\* them carry the same ratchet public key.
C16_EncryptLeavesActive ==
    last.op = "encrypt" =>
        LET me == sess[last.who].sending_ratchet
            was == last.pre.sending_ratchet
            rk == Inner(last.who, last.i).ratchet_key
        IN  /\ me.state = "Active"
            /\ rk = PublicKey(me.ratchet_key)
            /\ was.state = "Active" => me.ratchet_key = was.ratchet_key
            /\ was.state = "Inactive" =>
                  \A s \in Sessions : \A j \in 1..Len(out[s]) :
                      (s # last.who \/ j # last.i)
                      => Inner(s, j).ratchet_key # rk
            /\ \A j \in 1..(last.i - 1) :
                  out[last.who][j].dh = out[last.who][last.i].dh
                  => Inner(last.who, j).ratchet_key = rk

C16_Witness ==
    /\ last.op = "encrypt" /\ last.pre.sending_ratchet.state = "Inactive"
    /\ sess[last.who].sending_ratchet.state = "Active"
    /\ last.i >= 2 /\ last.hpre.dh >= 1

\* C17: a decrypt call on a message of the receiving ratchet's own key only
\* advances that ratchet's chain; sending ratchet, peer ratchet key and
\* session_keys stay as they were.
C17_MatchingOnlyAdvancesChain ==
    (last.op = "decrypt" /\ last.branch = "matching") =>
        LET me == sess[last.who]
            was == last.pre
        IN  /\ me.sending_ratchet = was.sending_ratchet
            /\ me.session_keys = was.session_keys
            /\ Unwrap(me.receiving_ratchet).ratchet_key
                  = Unwrap(was.receiving_ratchet).ratchet_key
            /\ Unwrap(me.receiving_ratchet).chain_key
                  = ChainKey_advance(Unwrap(was.receiving_ratchet).chain_key)

C17_Witness ==
    /\ last.op = "decrypt" /\ last.branch = "matching" /\ last.ok
    /\ last.pre.sending_ratchet.state = "Active"
    /\ Unwrap(sess[last.who].receiving_ratchet).chain_key.index = 2

\* C18: decrypting a PreKey message gives the result and the state that
\* decrypting the Normal message inside it gives, whatever the one-time,
\* ephemeral and identity keys of the envelope.
C18_EnvelopeIgnored ==
    (last.op = "decrypt" /\ last.type = "PreKey" /\ last.t \in Flips) =>
        LET m == Delivered(LastPeer, last.i, last.t, last.e)
            n == decrypt(last.pre,
                         [type |-> "Normal", inner |-> encode(InnerOf(m))])
        IN  /\ sess[last.who] = n.self
            /\ last.ok = n.ok
            /\ last.plaintext = n.plaintext

C18_Witness ==
    /\ last.op = "decrypt" /\ last.type = "PreKey" /\ last.e = "prekey"
    /\ last.t = "none" /\ last.ok
    /\ last.plaintext = Sent(LastPeer, last.i)

\* C19: a session with no receiving ratchet takes the DH-ratchet trigger for
\* any message, so no call ends in the last else of decrypt_normal: each
\* takes the trigger or the matching branch.
C19_NoTodo ==
    last.op = "decrypt" =>
        /\ last.branch # "todo"
        /\ last.branch # "decode" => last.branch \in {"trigger", "matching"}
        /\ (~IsSome(last.pre.receiving_ratchet) /\ last.branch # "decode")
              => last.branch = "trigger"

C19_Witness ==
    /\ last.op = "decrypt" /\ ~IsSome(last.pre.receiving_ratchet)
    /\ last.branch = "trigger" /\ last.t = "mac" /\ ~last.ok

\* C20: when the two sessions only exchange their messages, each direction
\* in order, every DH-ratchet trigger is taken while the sending ratchet is
\* Active: an Inactive one never meets a message of another ratchet key.
C20_TriggerWhileActive ==
    (last.op = "decrypt" /\ last.branch = "trigger" /\ InOrder)
    => last.pre.sending_ratchet.state = "Active"

C20_Witness ==
    /\ last.op = "decrypt" /\ last.branch = "trigger" /\ InOrder
    /\ last.who = "B" /\ last.pre.sending_ratchet.state = "Active"
    /\ last.ok

====
